---- MODULE Spec2Model ----
(***************************************************************************)
(* A model of the cell-hierarchy calculator: the hierarchy store           *)
(* (cell_database.CellHierarchyDB), the forward propagator                 *)
(* (app.calculate_cell_counts), the processing waterfall, the two reverse  *)
(* solvers (app.main, reverse_analysis) and the CV engine (cv_calculator). *)
(* The path table of cell_processing is modelled as well.  Spec runs the   *)
(* operations one call at a time; ConcurrentSpec runs the sidebar's walk   *)
(* statement by statement beside a second caller of load_from_file.        *)
(*                                                                         *)
(* Numbers.  Python floats are modelled as exact rationals in lowest       *)
(* terms, [num, den]; float('inf') is the value with den = 0.  int() is    *)
(* truncation toward zero.  Floating-point rounding error is below the     *)
(* model.  A CV, 100 / sqrt(count), is carried as the square root of a     *)
(* rational.                                                               *)
(*                                                                         *)
(* Names.  Category names are the integers 1..MaxNodes; a dict lists its   *)
(* keys in ascending order; Python's None is 0.                            *)
(***************************************************************************)
EXTENDS Integers, Sequences, FiniteSets, TLC

\* hierarchy: what db.hierarchy holds.  default_dict: what the module-level
\* dict DEFAULT_HIERARCHY holds now.  is_default: db.hierarchy is that very
\* dict object (no copy is made at construction).
VARIABLES hierarchy, default_dict, is_default, call, ret

vars == <<hierarchy, default_dict, is_default, call, ret>>

store == <<hierarchy, default_dict, is_default>>

(* ------------------------------ bounds -------------------------------- *)

\* Number of category names of the model.
MaxNodes == 3

\* Root input counts handed directly to the propagator are 1..MaxInput.
MaxInput == 3

(* ----------------------------- rationals ------------------------------ *)

Abs(x) == IF x < 0 THEN -x ELSE x

RECURSIVE Gcd(_, _)
Gcd(a, b) == IF b = 0 THEN a ELSE Gcd(b, a % b)

\* The rational n/d in lowest terms with a positive denominator (d # 0).
R(n, d) ==
    LET g == Gcd(Abs(n), Abs(d))
        s == IF d < 0 THEN -1 ELSE 1
    IN  [num |-> s * (n \div g), den |-> s * (d \div g)]

\* float('inf')
Inf == [num |-> 1, den |-> 0]

IsInf(x) == x.den = 0

FromInt(n) == [num |-> n, den |-> 1]

\* x * y for finite x, y; the cross factors are cancelled before multiplying.
RMul(x, y) ==
    LET g1 == Gcd(Abs(x.num), y.den)
        g2 == Gcd(Abs(y.num), x.den)
    IN  R((x.num \div g1) * (y.num \div g2), (x.den \div g2) * (y.den \div g1))

\* x / y for finite x and finite non-zero y.
RDiv(x, y) == RMul(x, R(y.den, y.num))

RLess(x, y) == x.num * y.den < y.num * x.den

RLeq(x, y) == x.num * y.den <= y.num * x.den

\* Python's int() of a finite float: truncation toward zero.
IntTrunc(x) ==
    IF x.num >= 0 THEN x.num \div x.den ELSE -((-x.num) \div x.den)

(* ------------------------- hierarchy definitions ---------------------- *)

None == 0

Names == 1..MaxNodes

\* The ascending sequence of the elements of a set of names.
RECURSIVE SortedSeq(_)
SortedSeq(S) ==
    IF S = {} THEN <<>>
    ELSE LET m == CHOOSE x \in S : \A y \in S : x <= y
         IN  <<m>> \o SortedSeq(S \ {m})

SeqToSet(s) == {s[i] : i \in 1..Len(s)}

\* The first MaxNodes entries of DEFAULT_HIERARCHY, in key order:
\* 1 Leukocytes, 2 non-Granulocytes, 3 Basophil, 4 T cell, 5 B cell,
\* 6 non-T non-B; children lists are cut to the names of the model.
DefaultParent(n) ==
    CASE n = 1 -> None
      [] n \in {2, 3} -> 1
      [] OTHER -> 2

DefaultProportion(n) ==
    CASE n = 1 -> R(1, 1)
      [] n = 2 -> R(3, 4)
      [] n = 3 -> R(1, 4)
      [] n = 4 -> R(7, 10)
      [] OTHER -> R(3, 20)

DEFAULT_HIERARCHY ==
    [n \in Names |->
        [proportion |-> DefaultProportion(n),
         parent     |-> DefaultParent(n),
         children   |-> SortedSeq({k \in Names : DefaultParent(k) = n})]]

\* Proportions the definition files of the model carry.  A file gives its
\* non-root nodes either graded proportions (1/2, 2/3, 3/4, ... by name) or
\* the rare proportion 0.05 throughout, and its root 1.0 or 0.5.
Graded == [n \in Names |-> R(n, n + 1)]

Profiles == {Graded, [n \in Names |-> R(1, 20)]}

RootProps == {R(1, 1), R(1, 2)}

\* Parent maps of the model's trees: any name is the root r; the other names
\* either all hang off the root (a star) or form a chain below it.
Star(r) == [n \in Names |-> IF n = r THEN None ELSE r]

Chain(r) ==
    [n \in Names |->
        IF n = r THEN None
        ELSE LET below == {j \in Names \ {r} : j < n}
             IN  IF below = {} THEN r
                 ELSE CHOOSE j \in below : \A i \in below : i <= j]

ParentMaps == {Star(r) : r \in Names} \cup {Chain(r) : r \in Names}

TreeOf(pm, pr) ==
    [n \in Names |->
        [proportion |-> pr[n],
         parent     |-> pm[n],
         children   |-> SortedSeq({k \in Names : pm[k] = n})]]

PropMaps(pm) ==
    {[n \in Names |-> IF pm[n] = None THEN rp ELSE pf[n]] :
        pf \in Profiles, rp \in RootProps}

\* Well-formed definitions (a single tree, every field present).
ValidDefs == UNION {{TreeOf(pm, pr) : pr \in PropMaps(pm)} : pm \in ParentMaps}

RootsOf(h) == {n \in DOMAIN h : h[n].parent = None}

\* The custom hierarchies a caller passes to calculate_cell_counts: the valid
\* definitions with graded proportions and root proportion 1.0.
CustomHierarchies ==
    {d \in ValidDefs :
        \A n \in Names :
            d[n].proportion = (IF d[n].parent = None THEN R(1, 1) ELSE Graded[n])}

\* The definitions the structurally invalid ones are derived from.
BaseDefs == {d \in CustomHierarchies : d[1].parent = None}

\* JSON that parses but is no well-formed definition: the empty mapping, a
\* second parentless node, no parentless node (the root's parent set to its
\* first child), a node without its proportion field.
EmptyDef == [n \in {} |-> None]

TwoRootsDefs ==
    {[d EXCEPT ![k].parent = None] : d \in BaseDefs, k \in Names} \ ValidDefs

NoRootDefs ==
    {EmptyDef} \cup
    UNION {{[d EXCEPT ![r].parent = d[r].children[1]] : r \in RootsOf(d)} :
              d \in BaseDefs}

MissingProportionDefs ==
    {[d EXCEPT ![k] = [parent |-> d[k].parent, children |-> d[k].children]] :
        d \in BaseDefs, k \in Names}

\* A second parentless node that its former parent no longer lists: the node
\* and what hangs below it cannot be reached from the first root.
Without(children, k) == SelectSeq(children, LAMBDA x : x # k)

DetachedDefs ==
    {[n \in Names |->
         [proportion |-> d[n].proportion,
          parent     |-> IF n = k THEN None ELSE d[n].parent,
          children   |-> Without(d[n].children, k)]] :
        d \in BaseDefs, k \in Names \ {1}}

InvalidDefs ==
    TwoRootsDefs \cup DetachedDefs \cup NoRootDefs \cup MissingProportionDefs

\* Well-formed trees in which one node carries the proportion 0.0.
ZeroProportionDefs ==
    {[d EXCEPT ![k].proportion = R(0, 1)] : d \in BaseDefs, k \in Names}

\* What a file path can name: no file, a file that is not JSON, or JSON.
Files ==
    {[kind |-> "missing"], [kind |-> "malformed"]} \cup
    {[kind |-> "json", content |-> d] :
        d \in ValidDefs \cup InvalidDefs \cup ZeroProportionDefs}

(* ------------------------- CellHierarchyDB ---------------------------- *)

\* The program is single-threaded: an operation starts only when no other is
\* under way.  call holds the operation last started and its arguments, ret
\* what it handed back; both are cleared when the caller has taken the result.
NoCall == [op |-> "idle"]

Idle == call = NoCall

Return ==
    /\ ~Idle
    /\ call' = NoCall
    /\ ret' = NoCall
    /\ UNCHANGED store

Min(S) == CHOOSE x \in S : \A y \in S : x <= y

\* get_root_node: the first key, in dict order, whose parent is None; None
\* when there is none.
get_root_node(h) ==
    IF RootsOf(h) = {} THEN None ELSE Min(RootsOf(h))

get_children(h, cell_type) ==
    IF cell_type \in DOMAIN h THEN h[cell_type].children ELSE <<>>

\* get_parent answering with the root for a name that is no key.
GetParentDefaultsToRoot(h, cell_type) ==
    IF cell_type \in DOMAIN h THEN h[cell_type].parent ELSE get_root_node(h)

get_parent(h, cell_type) ==
    IF cell_type \in DOMAIN h THEN h[cell_type].parent ELSE None

\* load_from_file: open() and json.load() raise inside the try; the except
\* clause prints and falls through.  Nothing is returned on either path.
LoadRaises(f) == f.kind \in {"missing", "malformed"}

LoadedHierarchy(h, f) == IF LoadRaises(f) THEN h ELSE f.content

LoadReturn(f) == "None"

LoadPrinted(f) == IF LoadRaises(f) THEN "Error loading" ELSE "Loaded"

load_from_file(f) ==
    /\ Idle
    /\ hierarchy' = LoadedHierarchy(hierarchy, f)
    /\ is_default' = (is_default /\ LoadRaises(f))
    /\ UNCHANGED default_dict
    /\ call' = [op |-> "load_from_file", file |-> f]
    /\ ret' = [raised |-> "none", value |-> LoadReturn(f), printed |-> LoadPrinted(f)]

\* What a path handed to save_to_file can name: a file that can be opened
\* for writing, or one that cannot (open() raises inside the try).
SaveTargets == {"writable", "unwritable"}

SaveRaises(target) == target = "unwritable"

\* save_to_file answering True on both paths.
SaveReturnAlwaysTrue(target) == "True"

\* save_to_file: "return True" at the end of the try, "return False" in the
\* except clause.
SaveReturn(target) == IF SaveRaises(target) THEN "False" ELSE "True"

SavePrinted(target) == IF SaveRaises(target) THEN "Error saving" ELSE "Saved"

save_to_file(target) ==
    /\ Idle
    /\ call' = [op |-> "save_to_file", target |-> target]
    /\ ret' = [raised |-> "none", saved |-> SaveReturn(target),
               printed |-> SavePrinted(target)]
    /\ UNCHANGED store

\* Arguments of update_proportion: a name the default hierarchy has, one
\* that is never a key, and the new proportion.
UpdatedCellTypes == {MaxNodes - 1, MaxNodes + 1}

UpdatedProportions == {R(1, 2)}

\* self.hierarchy[cell_type]["proportion"] = proportion
SetProportion(h, cell_type, proportion) ==
    [h EXCEPT ![cell_type] =
        [k \in DOMAIN h[cell_type] \cup {"proportion"} |->
            IF k = "proportion" THEN proportion ELSE h[cell_type][k]]]

UpdateReturn(h, cell_type) == IF cell_type \in DOMAIN h THEN "True" ELSE "False"

\* update_proportion: the assignment goes into the dict object db.hierarchy
\* names; while that is the module-level default, the default changes too.
update_proportion(cell_type, proportion) ==
    /\ Idle
    /\ hierarchy' = IF cell_type \in DOMAIN hierarchy
                    THEN SetProportion(hierarchy, cell_type, proportion)
                    ELSE hierarchy
    /\ default_dict' = IF is_default THEN hierarchy' ELSE default_dict
    /\ UNCHANGED is_default
    /\ call' = [op |-> "update_proportion", cell_type |-> cell_type,
                proportion |-> proportion]
    /\ ret' = [raised |-> "none", updated |-> UpdateReturn(hierarchy, cell_type)]

GetRootNode ==
    /\ Idle
    /\ call' = [op |-> "get_root_node"]
    /\ ret' = [raised |-> "none", root |-> get_root_node(hierarchy)]
    /\ UNCHANGED store

(* ------------------------ forward propagator -------------------------- *)

\* A dict with key k set to v.
Put(f, k, v) == [x \in DOMAIN f \cup {k} |-> IF x = k THEN v ELSE f[x]]

\* ChildCount with the product truncated to an integer at every level.
ChildCountTruncated(parent_count, child_proportion) ==
    FromInt(IntTrunc(RMul(parent_count, child_proportion)))

\* cell_counts[child] = parent_count * child_proportion: a float, untruncated.
ChildCount(parent_count, child_proportion) == RMul(parent_count, child_proportion)

\* calculate_children: parent_count is read once, then every child of the
\* node gets parent_count * its proportion and is descended into.  A child
\* that is no key of the hierarchy, or has no proportion, is a KeyError; a
\* children cycle ends in a RecursionError (fuel counts the nesting).
RECURSIVE calculate_children(_, _, _, _)
RECURSIVE CalculateChildList(_, _, _, _, _, _)
calculate_children(h, node, st, fuel) ==
    IF st.err # "none" THEN st
    ELSE IF fuel = 0 THEN [st EXCEPT !.err = "RecursionError"]
    ELSE IF node \notin DOMAIN h THEN st
    ELSE CalculateChildList(h, st.counts[node], h[node].children, 1, st, fuel)

CalculateChildList(h, parent_count, children, i, st, fuel) ==
    IF st.err # "none" \/ i > Len(children) THEN st
    ELSE LET child == children[i]
         IN  IF child \notin DOMAIN h \/ "proportion" \notin DOMAIN h[child]
             THEN [st EXCEPT !.err = "KeyError"]
             ELSE CalculateChildList(h, parent_count, children, i + 1,
                      calculate_children(h, child,
                          [st EXCEPT !.counts =
                              Put(st.counts, child,
                                  ChildCount(parent_count, h[child].proportion))],
                          fuel - 1),
                      fuel)

\* The root the propagator starts from: db.get_root_node(), the root of the
\* store's hierarchy, whichever hierarchy the caller passed.
PropagatorRoot(db, h) == get_root_node(db)

\* calculate_cell_counts(input_cells, hierarchy): db is the store's hierarchy,
\* h the hierarchy argument (the store's own when the caller passes None).
calculate_cell_counts(input_cells, db, h) ==
    LET root_node == PropagatorRoot(db, h)
    IN  calculate_children(h, root_node,
            [err |-> "none", counts |-> Put(<<>>, root_node, FromInt(input_cells))],
            MaxNodes + 1)

\* A direct call of the propagator: with no hierarchy argument (the store's
\* hierarchy is used), or with a custom hierarchy.
HierarchyArgument(given, custom) == IF given THEN custom ELSE hierarchy

\* CalculateCellCounts that also stores its hierarchy argument in the store
\* (db.hierarchy = hierarchy).
CalculateCellCountsStoring(input_cells, given, custom) ==
    /\ Idle
    /\ call' = [op |-> "calculate_cell_counts", input_cells |-> input_cells,
                given |-> given, hierarchy_arg |-> HierarchyArgument(given, custom)]
    /\ ret' = [raised |->
                   calculate_cell_counts(input_cells, hierarchy,
                       HierarchyArgument(given, custom)).err,
               counts |->
                   calculate_cell_counts(input_cells, hierarchy,
                       HierarchyArgument(given, custom)).counts]
    /\ hierarchy' = HierarchyArgument(given, custom)
    /\ UNCHANGED <<default_dict, is_default>>

CalculateCellCounts(input_cells, given, custom) ==
    /\ Idle
    /\ call' = [op |-> "calculate_cell_counts", input_cells |-> input_cells,
                given |-> given, hierarchy_arg |-> HierarchyArgument(given, custom)]
    /\ ret' = [raised |->
                   calculate_cell_counts(input_cells, hierarchy,
                       HierarchyArgument(given, custom)).err,
               counts |->
                   calculate_cell_counts(input_cells, hierarchy,
                       HierarchyArgument(given, custom)).counts]
    /\ UNCHANGED store

(* ----------------------- processing waterfall ------------------------- *)

\* The number_input's min_value and default (forward mode).
MIN_STARTING_CELLS == 1000000

DEFAULT_STARTING_CELLS == 2500000

\* Starting counts the user enters in forward mode.
MaxStartK == 2

StartStride == 37

StartingCells ==
    {MIN_STARTING_CELLS + k * StartStride : k \in 0..MaxStartK}
        \cup {DEFAULT_STARTING_CELLS}

\* Slider positions (percent) of the three processing-efficiency sliders.
PostStainPcts == {10, 35, 100}

EventsAcquiredPcts == {95, 100}

ViableCellsPcts == {80, 100}

StepNames == <<"Pre-Stain", "Post-Stain", "Events Acquired", "Single, Viable Cells">>

\* processing_steps with every fraction turned upside down (100/percent).
ProcessingStepsInverted(post_stain_pct, events_acquired_pct, viable_cells_pct) ==
    <<R(1, 1), R(100, post_stain_pct), R(100, events_acquired_pct),
      R(100, viable_cells_pct)>>

\* processing_steps: the percent_of_previous of each step, in dict order.
processing_steps(post_stain_pct, events_acquired_pct, viable_cells_pct) ==
    <<R(1, 1), R(post_stain_pct, 100), R(events_acquired_pct, 100),
      R(viable_cells_pct, 100)>>

\* WaterfallStep with the product rounded to the nearest integer.
WaterfallStepRounded(current_count, percent_of_previous) ==
    IntTrunc(RMul(FromInt(2 * current_count), percent_of_previous)) - 
    IntTrunc(RMul(FromInt(current_count), percent_of_previous))

\* One pass of the loop body: int(current_count * percent_of_previous).
WaterfallStep(current_count, percent_of_previous) ==
    IntTrunc(RMul(FromInt(current_count), percent_of_previous))

\* The waterfall loop: cell_counts_waterfall, as the sequence of its values.
RECURSIVE RunWaterfall(_, _, _)
RunWaterfall(current_count, steps, i) ==
    IF i > Len(steps) THEN <<>>
    ELSE LET c == WaterfallStep(current_count, steps[i])
         IN  <<c>> \o RunWaterfall(c, steps, i + 1)

\* input_cells = cell_counts_waterfall["Single, Viable Cells"]
InputCells(waterfall) == waterfall[Len(waterfall)]

(* ------------------------ reverse mode of main ------------------------ *)

\* Positions of main's integer Target CV slider (1..20).
AppTargetCvs == {10, 20}

\* (100/target_cv)**2
EventsForCv(target_cv) == RMul(RDiv(FromInt(100), target_cv), RDiv(FromInt(100), target_cv))

LeafPopulations(h) == {c \in DOMAIN h : Len(get_children(h, c)) = 0}

\* main.get_cumulative_proportion: while current is a key of the hierarchy,
\* multiply its proportion in and move to its parent.  fuel bounds the walk:
\* a parent cycle never leaves the loop.
RECURSIVE AppCumulativeWalk(_, _, _, _)
AppCumulativeWalk(h, current, proportion, fuel) ==
    IF current \notin DOMAIN h THEN [err |-> "none", value |-> proportion]
    ELSE IF fuel = 0 THEN [err |-> "hang", value |-> proportion]
    ELSE IF "proportion" \notin DOMAIN h[current]
         THEN [err |-> "KeyError", value |-> proportion]
    ELSE AppCumulativeWalk(h, get_parent(h, current),
             RMul(proportion, h[current].proportion), fuel - 1)

AppCumulativeProportion(h, population) ==
    AppCumulativeWalk(h, population, R(1, 1), MaxNodes + 1)

TotalEfficiency(post_stain_pct, events_acquired_pct, viable_cells_pct) ==
    RMul(RMul(R(post_stain_pct, 100), R(events_acquired_pct, 100)),
         R(viable_cells_pct, 100))

\* required_events = int((100/target_cv)**2 / population_frequency)
RequiredEvents(target_cv, population_frequency) ==
    IntTrunc(RDiv(EventsForCv(target_cv), population_frequency))

\* required_input_cells = int(required_events / total_efficiency)
RequiredInputCells(required_events, total_efficiency) ==
    IntTrunc(RDiv(FromInt(required_events), total_efficiency))

\* The reverse branch of main up to "starting_cells = required_input_cells".
AppReverse(h, target_population, target_cv, post, events, viable) ==
    LET w  == AppCumulativeProportion(h, target_population)
        f  == w.value
        re == RequiredEvents(FromInt(target_cv), f)
        te == TotalEfficiency(post, events, viable)
    IN  IF w.err # "none" THEN [err |-> w.err]
        ELSE IF f.num = 0 \/ te.num = 0 THEN [err |-> "ZeroDivisionError"]
        ELSE [err |-> "none",
              population_frequency |-> f,
              required_events |-> re,
              total_efficiency |-> te,
              required_input_cells |-> RequiredInputCells(re, te)]

\* The "Cell Count" column of the result records: int(count) of every entry
\* of cell_counts.
ResultCellCounts(cell_counts) ==
    [c \in DOMAIN cell_counts |-> IntTrunc(cell_counts[c])]

\* The part of main both modes share: the waterfall, then the propagation of
\* its last stage.
AppCommon(h, starting_cells, post, events, viable) ==
    LET wf == RunWaterfall(starting_cells, processing_steps(post, events, viable), 1)
        cc == calculate_cell_counts(InputCells(wf), h, h)
    IN  [raised |-> cc.err, starting_cells |-> starting_cells, waterfall |-> wf,
         input_cells |-> InputCells(wf), cell_counts |-> cc.counts,
         display_counts |-> ResultCellCounts(cc.counts)]

\* One run of main in forward mode.
MainForward(starting_cells, post, events, viable) ==
    /\ Idle
    /\ call' = [op |-> "main", mode |-> "Forward", starting_cells |-> starting_cells,
                post_stain_pct |-> post, events_acquired_pct |-> events,
                viable_cells_pct |-> viable]
    /\ ret' = AppCommon(hierarchy, starting_cells, post, events, viable)
    /\ UNCHANGED store

\* One run of main in reverse mode.  The selectbox offers the leaf
\* populations (None when there is none).
MainReverse(target_population, target_cv, post, events, viable) ==
    LET rv == AppReverse(hierarchy, target_population, target_cv, post, events, viable)
    IN  /\ Idle
        /\ target_population \in
               (IF LeafPopulations(hierarchy) = {} THEN {None}
                ELSE LeafPopulations(hierarchy))
        /\ call' = [op |-> "main", mode |-> "Reverse",
                    target_population |-> target_population, target_cv |-> target_cv,
                    post_stain_pct |-> post, events_acquired_pct |-> events,
                    viable_cells_pct |-> viable]
        /\ ret' = IF rv.err # "none" THEN [raised |-> rv.err]
                  ELSE [reverse |-> rv] @@
                       AppCommon(hierarchy, rv.required_input_cells, post, events, viable)
        /\ UNCHANGED store

(* ------------------- reverse_analysis (sidebar) ----------------------- *)

\* Positions of the sidebar's Target CV slider (0.1 .. 100.0 in steps of
\* 0.1), in tenths of a percent.
SidebarCvTenths == {50, 100, 200}

\* What st.session_state holds under the three efficiency keys.  The
\* component reads whatever its host stored there; 0 is the value its
\* "zero processing efficiency" branch is written for.
SessionPostStainPcts == PostStainPcts \cup {0}

\* reverse_analysis.get_cumulative_proportion(population, db, hierarchy):
\* parents come from db, proportions from hierarchy; the loop runs while the
\* parent is not None, so the root's proportion is not multiplied in.  An
\* absent node or a missing proportion is reported with st.error and 0.0.
RECURSIVE CumulativeWalk(_, _, _, _, _, _)
CumulativeWalk(db, h, current, parent, proportion, fuel) ==
    IF parent = None THEN [err |-> "none", value |-> proportion, error |-> "none"]
    ELSE IF fuel = 0 THEN [err |-> "hang", value |-> proportion, error |-> "none"]
    ELSE IF current \notin DOMAIN h
         THEN [err |-> "none", value |-> R(0, 1), error |-> "not found"]
    ELSE IF "proportion" \notin DOMAIN h[current]
         THEN [err |-> "none", value |-> R(0, 1), error |-> "missing proportion"]
    ELSE CumulativeWalk(db, h, parent, get_parent(db, parent),
             RMul(proportion, h[current].proportion), fuel - 1)

\* get_cumulative_proportion with the root's proportion multiplied in as well.
CumulativeProportionWithRoot(population, db, h) ==
    LET w == CumulativeWalk(db, h, population, get_parent(db, population), R(1, 1),
                            MaxNodes + 1)
        r == get_root_node(h)
    IN  IF /\ w.err = "none" /\ w.error = "none" /\ r \in DOMAIN h
           /\ "proportion" \in DOMAIN h[r]
        THEN [w EXCEPT !.value = RMul(w.value, h[r].proportion)]
        ELSE w

get_cumulative_proportion(population, db, h) ==
    CumulativeWalk(db, h, population, get_parent(db, population), R(1, 1),
                   MaxNodes + 1)

\* results["required_events"]: int((100/target_cv)**2 / population_frequency)
\* for a positive frequency, 0 otherwise (the local stays float('inf')).
SidebarRequiredEvents(target_cv, population_frequency) ==
    IF population_frequency.num > 0
    THEN FromInt(IntTrunc(RDiv(EventsForCv(target_cv), population_frequency)))
    ELSE Inf

\* SidebarRequiredInputCells with the efficiency multiplied in, not divided
\* out.
SidebarRequiredInputCellsTimes(required_events, total_efficiency) ==
    IF ~IsInf(required_events) /\ total_efficiency.num > 0
    THEN FromInt(IntTrunc(RMul(required_events, total_efficiency)))
    ELSE Inf

\* The local required_input_cells: computed only from a finite
\* required_events and a positive efficiency, float('inf') otherwise.
SidebarRequiredInputCells(required_events, total_efficiency) ==
    IF ~IsInf(required_events) /\ total_efficiency.num > 0
    THEN FromInt(IntTrunc(RDiv(required_events, total_efficiency)))
    ELSE Inf

\* StoredOr that stores 0 for float('inf') whatever the fallback.
StoredOrZero(x, fallback) == IF IsInf(x) THEN 0 ELSE x.num

\* What the results dict stores for a local that may be float('inf').
StoredOr(x, fallback) == IF IsInf(x) THEN fallback ELSE x.num

\* The st.error / st.success messages of the calculation section.
SidebarMessages(walk_error, population_frequency, required_events, total_efficiency) ==
    (IF walk_error = "none" THEN {} ELSE {walk_error}) \cup
    (IF population_frequency.num > 0 THEN {} ELSE {"zero or invalid frequency"}) \cup
    (IF ~IsInf(required_events) /\ total_efficiency.num > 0 THEN {"success"}
     ELSE IF total_efficiency.num <= 0 THEN {"zero processing efficiency"}
     ELSE {})

\* display_reverse_analysis_sidebar from "results = {...}" to "return results".
SidebarResults(db, target_population, target_cv, post, events, viable) ==
    LET w   == get_cumulative_proportion(target_population, db, db)
        f   == w.value
        re  == SidebarRequiredEvents(target_cv, f)
        te  == TotalEfficiency(post, events, viable)
        ric == SidebarRequiredInputCells(re, te)
    IN  IF w.err # "none" THEN [raised |-> w.err]
        ELSE IF f.num < 0
        THEN [raised |-> "none",
              messages |-> {"Could not determine population frequency."},
              target_population |-> target_population,
              target_cv |-> target_cv,
              population_frequency |-> f,
              required_events |-> 0,
              required_input_cells |-> MIN_STARTING_CELLS,
              total_efficiency |-> R(0, 1),
              starting_cells |-> MIN_STARTING_CELLS]
        ELSE [raised |-> "none",
              messages |-> SidebarMessages(w.error, f, re, te),
              target_population |-> target_population,
              target_cv |-> target_cv,
              population_frequency |-> f,
              required_events |-> StoredOr(re, 0),
              required_input_cells |-> StoredOr(ric, 0),
              total_efficiency |-> te,
              starting_cells |-> StoredOr(ric, MIN_STARTING_CELLS)]

\* The populations the tree select offers: the session's target is any node
\* of the hierarchy (get_root_node()'s None when the hierarchy is empty).
SidebarTargets(h) == IF DOMAIN h = {} THEN {None} ELSE DOMAIN h

DisplayReverseAnalysisSidebar(target_population, cv_tenths, post, events, viable) ==
    /\ Idle
    /\ target_population \in SidebarTargets(hierarchy)
    /\ call' = [op |-> "display_reverse_analysis_sidebar",
                target_population |-> target_population, cv_tenths |-> cv_tenths,
                post_stain_pct |-> post, events_acquired_pct |-> events,
                viable_cells_pct |-> viable]
    /\ ret' = SidebarResults(hierarchy, target_population, R(cv_tenths, 10),
                             post, events, viable)
    /\ UNCHANGED store

(* ------------------- cell_processing (path rows) ---------------------- *)

\* Defaults of the three efficiency sliders (config.settings).
DEFAULT_POST_STAIN_PCT == 35

DEFAULT_EVENTS_ACQUIRED_PCT == 95

DEFAULT_VIABLE_CELLS_PCT == 80

\* target_path: "while current:" inserts current at the front and moves to
\* its parent, so the path runs from the root down to the target.  A parent
\* cycle never leaves the loop (fuel bounds the walk).
RECURSIVE TargetPath(_, _, _)
TargetPath(db, current, fuel) ==
    IF current = None THEN [err |-> "none", path |-> <<>>]
    ELSE IF fuel = 0 THEN [err |-> "hang", path |-> <<>>]
    ELSE LET up == TargetPath(db, get_parent(db, current), fuel - 1)
         IN  [err |-> up.err, path |-> Append(up.path, current)]

\* current_count = int(parent_count * frequency)
PathRowCount(parent_count, frequency) ==
    IntTrunc(RMul(FromInt(parent_count), frequency))

\* The rows added for the target path: the first name of the path is skipped;
\* each later one gets int(count of the row before * its proportion), starting
\* from the "Single, Viable Cells" count.
RECURSIVE PathRows(_, _, _, _)
PathRows(h, path, i, current_count) ==
    IF i > Len(path) THEN [err |-> "none", counts |-> <<>>]
    ELSE IF path[i] \notin DOMAIN h \/ "proportion" \notin DOMAIN h[path[i]]
         THEN [err |-> "KeyError", counts |-> <<>>]
    ELSE LET c    == PathRowCount(current_count, h[path[i]].proportion)
             rest == PathRows(h, path, i + 1, c)
         IN  [err |-> rest.err, counts |-> <<c>> \o rest.counts]

\* display_cell_processing(cell_counts_waterfall, starting_cells,
\* target_population, db): the names and cell counts of the path rows.
display_cell_processing(single_viable_cells, target_population, db) ==
    LET tp   == TargetPath(db, target_population, MaxNodes + 1)
        rows == PathRows(db, tp.path, 2, single_viable_cells)
    IN  IF tp.err # "none" THEN [err |-> tp.err, names |-> <<>>, counts |-> <<>>]
        ELSE IF rows.err # "none" THEN [err |-> rows.err, names |-> <<>>, counts |-> <<>>]
        ELSE [err |-> "none",
              names |-> IF tp.path = <<>> THEN <<>> ELSE Tail(tp.path),
              counts |-> rows.counts]

\* The view is shown with the waterfall of a starting count under the default
\* efficiencies, for a target of the hierarchy or without one (None).
DisplayCellProcessing(starting_cells, target_population) ==
    /\ Idle
    /\ target_population \in DOMAIN hierarchy \cup {None}
    /\ call' = [op |-> "display_cell_processing",
                single_viable_cells |->
                    InputCells(RunWaterfall(starting_cells,
                        processing_steps(DEFAULT_POST_STAIN_PCT,
                            DEFAULT_EVENTS_ACQUIRED_PCT, DEFAULT_VIABLE_CELLS_PCT), 1)),
                target_population |-> target_population]
    /\ ret' = [raised |->
                   display_cell_processing(call'.single_viable_cells,
                       target_population, hierarchy).err,
               path_names |->
                   display_cell_processing(call'.single_viable_cells,
                       target_population, hierarchy).names,
               path_counts |->
                   display_cell_processing(call'.single_viable_cells,
                       target_population, hierarchy).counts]
    /\ UNCHANGED store

(* ---------------------------- cv_calculator --------------------------- *)

\* The value of 100 / np.sqrt(count) is no rational.  A float of this module
\* is [root, v]: the rational v itself, or its square root when root holds.
Plain(q) == [root |-> FALSE, v |-> q]

\* np.sqrt(x) for a rational x >= 0.
Sqrt(x) == [root |-> TRUE, v |-> x]

\* k / s and k * s for an integer k > 0 and the square root s of a positive
\* rational.
IntOverSqrt(k, s) == [root |-> TRUE, v |-> RDiv(FromInt(k * k), s.v)]

IntTimesSqrt(k, s) == [root |-> TRUE, v |-> RMul(FromInt(k * k), s.v)]

\* x <= k and x < y, for an integer k >= 0 and floats x, y >= 0 when roots
\* are involved.
FloatLeqInt(x, k) ==
    IF x.root THEN RLeq(x.v, FromInt(k * k)) ELSE RLeq(x.v, FromInt(k))

\* calculate_cv with the square root multiplied, not divided.
CalculateCvTimes(cell_count) ==
    IF cell_count.num <= 0 THEN Plain(Inf)
    ELSE IntTimesSqrt(100, Sqrt(cell_count))

\* calculate_cv: float('inf') for a count <= 0, else 100 / np.sqrt(count).
calculate_cv(cell_count) ==
    IF cell_count.num <= 0 THEN Plain(Inf)
    ELSE IntOverSqrt(100, Sqrt(cell_count))

\* calculate_cells_needed_for_cv with the guard "desired_cv < 0": at 0 the
\* division 100 / desired_cv raises.
CellsNeededGuardNegative(desired_cv) ==
    IF desired_cv.num < 0 THEN [err |-> "none", value |-> Inf]
    ELSE IF desired_cv.num = 0 THEN [err |-> "ZeroDivisionError", value |-> Inf]
    ELSE [err |-> "none", value |-> EventsForCv(desired_cv)]

\* calculate_cells_needed_for_cv: float('inf') for a CV <= 0, else
\* (100 / desired_cv) ** 2.
calculate_cells_needed_for_cv(desired_cv) ==
    IF desired_cv.num <= 0 THEN [err |-> "none", value |-> Inf]
    ELSE [err |-> "none", value |-> EventsForCv(desired_cv)]

FloatLessInt(x, k) ==
    IF x.root THEN RLess(x.v, FromInt(k * k)) ELSE RLess(x.v, FromInt(k))

\* categorize_cv with "<" where the code has "<=".
CategorizeCvStrict(cv) ==
    IF FloatLessInt(cv, 1) THEN "Excellent (<=1%)"
    ELSE IF FloatLessInt(cv, 5) THEN "Good (1-5%)"
    ELSE IF FloatLessInt(cv, 10) THEN "Fair (5-10%)"
    ELSE IF FloatLessInt(cv, 20) THEN "Poor (10-20%)"
    ELSE "Very Poor (>20%)"

\* categorize_cv: the if/elif chain.  The labels are written in ASCII.
categorize_cv(cv) ==
    IF FloatLeqInt(cv, 1) THEN "Excellent (<=1%)"
    ELSE IF FloatLeqInt(cv, 5) THEN "Good (1-5%)"
    ELSE IF FloatLeqInt(cv, 10) THEN "Fair (5-10%)"
    ELSE IF FloatLeqInt(cv, 20) THEN "Poor (10-20%)"
    ELSE "Very Poor (>20%)"

\* row['1:n']: int(1/freq) for a positive frequency, float('inf') otherwise.
KeeneyRatio(freq) ==
    IF freq.num > 0 THEN FromInt(IntTrunc(RDiv(FromInt(1), freq))) ELSE Inf

\* KeeneyCell rounding up instead of truncating.
KeeneyCellCeil(required_events, freq) ==
    IF freq.num = 0 THEN [err |-> "ZeroDivisionError", value |-> 0]
    ELSE IF IsInf(required_events) THEN [err |-> "OverflowError", value |-> 0]
    ELSE [err |-> "none",
          value |-> -IntTrunc(RDiv(R(-required_events.num, required_events.den), freq))
                    + (IF RDiv(required_events, freq).den = 1 THEN 0 ELSE 1)]

\* One cell: total_events = required_events[cv] / freq, then int(total_events).
\* A zero frequency is a ZeroDivisionError; an infinite quotient cannot be
\* converted (OverflowError).
KeeneyCell(required_events, freq) ==
    IF freq.num = 0 THEN [err |-> "ZeroDivisionError", value |-> 0]
    ELSE IF IsInf(required_events) THEN [err |-> "OverflowError", value |-> 0]
    ELSE [err |-> "none", value |-> IntTrunc(RDiv(required_events, freq))]

\* generate_keeney_table(desired_cvs, frequencies): one row per frequency, in
\* order, one cell per desired CV, in order; the first failing cell (rows
\* first) ends the call.
generate_keeney_table(desired_cvs, frequencies) ==
    LET required_events ==
            [j \in 1..Len(desired_cvs) |->
                calculate_cells_needed_for_cv(desired_cvs[j]).value]
        cell(i, j) == KeeneyCell(required_events[j], frequencies[i])
        failing == {ij \in (1..Len(frequencies)) \X (1..Len(desired_cvs)) :
                       cell(ij[1], ij[2]).err # "none"}
        first == CHOOSE ij \in failing :
                     \A kl \in failing :
                         ij[1] < kl[1] \/ (ij[1] = kl[1] /\ ij[2] <= kl[2])
    IN  IF failing # {} THEN [err |-> cell(first[1], first[2]).err, table |-> <<>>]
        ELSE [err |-> "none",
              table |->
                  [i \in 1..Len(frequencies) |->
                      [Fraction |-> frequencies[i],
                       ratio    |-> KeeneyRatio(frequencies[i]),
                       cells    |-> [j \in 1..Len(desired_cvs) |-> cell(i, j).value]]]]

(* ------------------- calls of the pure functions ---------------------- *)

\* Largest numerator of the counts handed to calculate_cv.
MaxCount == 4

\* Counts: whole and half, negative, zero and positive.
CvCounts == {R(n, d) : n \in (-1)..MaxCount, d \in {1, 2}}

\* Desired CVs (percent): negative, zero, and positive ones.
DesiredCvs == {R(n, 10) : n \in {-10, 0, 1, 30, 50, 100, 200, 1000}}

\* CV values handed to categorize_cv: values at and just above each band
\* boundary, values inside the bands, float('inf'), and results of
\* calculate_cv.
CvValues ==
    {Plain(q) : q \in {R(-1, 1), R(0, 1), R(1, 2), R(1, 1), R(10001, 10000),
                       R(3, 1), R(5, 1), R(50001, 10000), R(7, 1), R(10, 1),
                       R(100001, 10000), R(15, 1), R(20, 1), R(200001, 10000),
                       R(50, 1), Inf}}
    \cup {calculate_cv(FromInt(c)) : c \in {0, 24, 25, 100, 400, 9999, 10000, 10001}}

\* Argument lists of generate_keeney_table: the lists main passes (the
\* desired CVs are also the function's default), and short lists with
\* quotients that are no integers, a zero CV, a zero frequency.
DesiredCvLists ==
    {<<FromInt(1), FromInt(5), FromInt(10), FromInt(20)>>, <<FromInt(10)>>,
     <<FromInt(3), FromInt(10)>>, <<FromInt(0), FromInt(10)>>, <<>>}

FrequencyLists ==
    {<<R(1, 10), R(1, 100), R(1, 1000), R(1, 10000)>>, <<R(1, 100)>>,
     <<R(3, 10), R(1, 100)>>, <<R(0, 1), R(1, 100)>>, <<R(1, 100), R(0, 1)>>}

CalculateCv(cell_count) ==
    /\ Idle
    /\ call' = [op |-> "calculate_cv", cell_count |-> cell_count]
    /\ ret' = [raised |-> "none", cv |-> calculate_cv(cell_count)]
    /\ UNCHANGED store

CalculateCellsNeededForCv(desired_cv) ==
    /\ Idle
    /\ call' = [op |-> "calculate_cells_needed_for_cv", desired_cv |-> desired_cv]
    /\ ret' = [raised |-> calculate_cells_needed_for_cv(desired_cv).err,
               cells_needed |-> calculate_cells_needed_for_cv(desired_cv).value]
    /\ UNCHANGED store

CategorizeCv(cv) ==
    /\ Idle
    /\ call' = [op |-> "categorize_cv", cv |-> cv]
    /\ ret' = [raised |-> "none", category |-> categorize_cv(cv)]
    /\ UNCHANGED store

GenerateKeeneyTable(desired_cvs, frequencies) ==
    /\ Idle
    /\ call' = [op |-> "generate_keeney_table", desired_cvs |-> desired_cvs,
                frequencies |-> frequencies]
    /\ ret' = [raised |-> generate_keeney_table(desired_cvs, frequencies).err,
               table |-> generate_keeney_table(desired_cvs, frequencies).table]
    /\ UNCHANGED store

\* Names asked of the store: the model's names and one that is never a key.
QueriedNames == 1..(MaxNodes + 1)

GetParent(cell_type) ==
    /\ Idle
    /\ call' = [op |-> "get_parent", cell_type |-> cell_type]
    /\ ret' = [raised |-> "none", parent |-> get_parent(hierarchy, cell_type)]
    /\ UNCHANGED store

GetChildren(cell_type) ==
    /\ Idle
    /\ call' = [op |-> "get_children", cell_type |-> cell_type]
    /\ ret' = [raised |-> "none", children |-> get_children(hierarchy, cell_type)]
    /\ UNCHANGED store

(* -------------------------- specification ----------------------------- *)

\* db = CellHierarchyDB(): no file path, so the store holds the default.
Init ==
    /\ hierarchy = DEFAULT_HIERARCHY
    /\ default_dict = DEFAULT_HIERARCHY
    /\ is_default = TRUE
    /\ call = NoCall
    /\ ret = NoCall

Next ==
    \/ Return
    \/ \E f \in Files : load_from_file(f)
    \/ \E t \in SaveTargets : save_to_file(t)
    \/ \E c \in UpdatedCellTypes, p \in UpdatedProportions : update_proportion(c, p)
    \/ GetRootNode
    \/ \E n \in 1..MaxInput, c \in CustomHierarchies \cup {hierarchy} :
          CalculateCellCounts(n, c # hierarchy, c)
    \/ \E sc \in StartingCells, p \in PostStainPcts, e \in EventsAcquiredPcts,
          v \in ViableCellsPcts : MainForward(sc, p, e, v)
    \/ \E t \in Names \cup {None}, cv \in AppTargetCvs, p \in PostStainPcts,
          e \in EventsAcquiredPcts, v \in ViableCellsPcts : MainReverse(t, cv, p, e, v)
    \/ \E t \in Names \cup {None}, cv \in SidebarCvTenths, p \in SessionPostStainPcts,
          e \in EventsAcquiredPcts, v \in ViableCellsPcts :
              DisplayReverseAnalysisSidebar(t, cv, p, e, v)
    \/ \E sc \in StartingCells, t \in Names \cup {None} : DisplayCellProcessing(sc, t)
    \/ \E c \in CvCounts : CalculateCv(c)
    \/ \E c \in DesiredCvs : CalculateCellsNeededForCv(c)
    \/ \E c \in CvValues : CategorizeCv(c)
    \/ \E cvs \in DesiredCvLists, fs \in FrequencyLists : GenerateKeeneyTable(cvs, fs)
    \/ \E n \in QueriedNames : GetParent(n)
    \/ \E n \in QueriedNames : GetChildren(n)

Spec == Init /\ [][Next]_vars

(* ------------- the sidebar's walk beside a second caller -------------- *)

\* The calculation section of the sidebar taken one statement at a time,
\* with load_from_file called on the same db by another caller in between.
\* call holds the arguments of get_cumulative_proportion (hierarchy_arg is
\* the mapping db.get_hierarchy() returned), ret the locals of the walk.

\* Passes of the while loop after which the walk counts as never ending.
WalkFuel == 2 * MaxNodes + 1

\* hierarchy = db.get_hierarchy(), then the call of get_cumulative_proportion
\* up to "current = population".
WalkCall(population) ==
    /\ Idle
    /\ call' = [op |-> "get_cumulative_proportion", population |-> population,
                hierarchy_arg |-> hierarchy]
    /\ ret' = [raised |-> "running", pc |-> "enter", current |-> population,
               parent |-> None, proportion |-> R(1, 1), passes |-> 0]
    /\ UNCHANGED store

Walking == call.op = "get_cumulative_proportion" /\ ret.raised = "running"

\* parent = db.get_parent(current), before the loop.
WalkEnter ==
    /\ Walking /\ ret.pc = "enter"
    /\ ret' = [ret EXCEPT !.pc = "loop", !.parent = get_parent(hierarchy, ret.current)]
    /\ UNCHANGED <<store, call>>

\* One pass of the loop body: the proportion is read from the hierarchy
\* argument, the next parent from db.
WalkIterate ==
    LET h == call.hierarchy_arg
    IN  /\ Walking /\ ret.pc = "loop"
        /\ ret.parent # None
        /\ ret.passes < WalkFuel
        /\ ret' = IF ret.current \notin DOMAIN h
                  THEN [raised |-> "none", value |-> R(0, 1), error |-> "not found"]
                  ELSE IF "proportion" \notin DOMAIN h[ret.current]
                  THEN [raised |-> "none", value |-> R(0, 1),
                        error |-> "missing proportion"]
                  ELSE [ret EXCEPT
                           !.proportion = RMul(ret.proportion, h[ret.current].proportion),
                           !.current = ret.parent,
                           !.parent = get_parent(hierarchy, ret.parent),
                           !.passes = ret.passes + 1]
        /\ UNCHANGED <<store, call>>

\* The loop test fails: return proportion.
WalkReturn ==
    /\ Walking /\ ret.pc = "loop"
    /\ ret.parent = None
    /\ ret' = [raised |-> "none", value |-> ret.proportion, error |-> "none"]
    /\ UNCHANGED <<store, call>>

\* The loop has gone round a cycle of parent links: it does not end.
WalkHang ==
    /\ Walking /\ ret.pc = "loop"
    /\ ret.parent # None
    /\ ret.passes = WalkFuel
    /\ ret' = [raised |-> "hang"]
    /\ UNCHANGED <<store, call>>

\* The caller takes the result.
WalkTaken ==
    /\ ~Walking
    /\ Return

\* load_from_file on the same db by another caller: between two calls, or
\* between two statements of a walk whose hierarchy argument the store still
\* holds (one replacement during a walk).
ConcurrentLoad(f) ==
    /\ Idle \/ (Walking /\ hierarchy = call.hierarchy_arg)
    /\ hierarchy' = LoadedHierarchy(hierarchy, f)
    /\ is_default' = (is_default /\ LoadRaises(f))
    /\ UNCHANGED <<default_dict, call, ret>>

ConcurrentNext ==
    \/ \E t \in Names : WalkCall(t)
    \/ WalkEnter
    \/ WalkIterate
    \/ WalkReturn
    \/ WalkHang
    \/ WalkTaken
    \/ \E f \in Files : ConcurrentLoad(f)

ConcurrentSpec == Init /\ [][ConcurrentNext]_vars

(* ------------------------------ claims -------------------------------- *)

\* A well-formed hierarchy: every field present, exactly one parentless node,
\* children lists that mirror the parent links, every node below the root.
RECURSIVE ReachesRoot(_, _, _)
ReachesRoot(h, n, fuel) ==
    IF h[n].parent = None THEN TRUE
    ELSE IF fuel = 0 THEN FALSE
    ELSE ReachesRoot(h, h[n].parent, fuel - 1)

ValidTree(h) ==
    /\ DOMAIN h # {}
    /\ \A n \in DOMAIN h : DOMAIN h[n] = {"proportion", "parent", "children"}
    /\ Cardinality(RootsOf(h)) = 1
    /\ \A n \in DOMAIN h : h[n].parent \in DOMAIN h \cup {None}
    /\ \A n \in DOMAIN h :
           /\ SeqToSet(h[n].children) = {k \in DOMAIN h : h[k].parent = n}
           /\ Len(h[n].children) = Cardinality(SeqToSet(h[n].children))
    /\ \A n \in DOMAIN h : ReachesRoot(h, n, Cardinality(DOMAIN h))

TheRoot(h) == CHOOSE r \in DOMAIN h : h[r].parent = None

\* k = floor(x) for a finite rational x.
IsFloorOf(k, x) == k * x.den <= x.num /\ x.num < (k + 1) * x.den

\* counts is the propagation of n from the root of h.
IsPropagationOf(counts, h, n) ==
    /\ DOMAIN h \subseteq DOMAIN counts
    /\ counts[TheRoot(h)] = FromInt(n)
    /\ \A c \in DOMAIN h \ {TheRoot(h)} :
           counts[c] = RMul(counts[h[c].parent], h[c].proportion)

\* C1: for every valid tree hierarchy passed to the forward propagator and
\* every positive root input N, the result maps the parentless node of that
\* hierarchy to N and every other node to (count of its parent) * (its own
\* proportion), untruncated.
C1_PropagatesFromRootOfPassedHierarchy ==
    (call.op = "calculate_cell_counts" /\ ValidTree(call.hierarchy_arg)
        /\ call.input_cells > 0)
    => /\ ret.raised = "none"
       /\ IsPropagationOf(ret.counts, call.hierarchy_arg, call.input_cells)

\* C2: the waterfall starts from current = startingMaterialCount and, for
\* each processing step in its fixed order, sets current = floor(current *
\* retentionFraction) and records it; the last recorded value is the root
\* input handed to the forward propagator; 1,000,000 with fractions 1.0,
\* 0.35, 0.95, 0.80 gives 1000000, 350000, 332500, 266000.
WaterfallPercents ==
    <<100, call.post_stain_pct, call.events_acquired_pct, call.viable_cells_pct>>

C2_WaterfallFloorsEachStep ==
    (call.op = "main" /\ "waterfall" \in DOMAIN ret)
    => /\ call.mode = "Forward" => ret.starting_cells = call.starting_cells
       /\ Len(ret.waterfall) = Len(StepNames)
       /\ \A i \in 1..Len(ret.waterfall) :
              IsFloorOf(ret.waterfall[i],
                  RMul(FromInt(IF i = 1 THEN ret.starting_cells
                               ELSE ret.waterfall[i - 1]),
                       R(WaterfallPercents[i], 100)))
       /\ ret.input_cells = ret.waterfall[Len(ret.waterfall)]
       /\ ret.cell_counts[get_root_node(hierarchy)] = FromInt(ret.input_cells)
       /\ (ret.starting_cells = 1000000 /\ WaterfallPercents = <<100, 35, 95, 80>>)
              => ret.waterfall = <<1000000, 350000, 332500, 266000>>

\* C2 witness: a forward run whose second stage is a proper floor (the
\* product 1000037 * 0.35 is no integer), and the documented example.
C2_Witness ==
    /\ call.op = "main" /\ call.mode = "Forward"
    /\ call.starting_cells = MIN_STARTING_CELLS + StartStride
    /\ call.post_stain_pct = 35
    /\ ret.waterfall[2] * 100 < ret.waterfall[1] * 35

\* (100/c)^2 for a positive rational c, written out.
KeeneyEvents(c) == R(10000 * c.den * c.den, c.num * c.num)

\* The product of the three retention fractions of a call.
CallEfficiency ==
    R(call.post_stain_pct * call.events_acquired_pct * call.viable_cells_pct,
      1000000)

\* The frequency, required events and required input cells a reverse solve
\* handed back, and its target CV: main's reverse branch and the sidebar.
ReverseSolved ==
    \/ call.op = "main" /\ call.mode = "Reverse" /\ "reverse" \in DOMAIN ret
    \/ call.op = "display_reverse_analysis_sidebar" /\ ret.raised = "none"

SolvedCv ==
    IF call.op = "main" THEN FromInt(call.target_cv) ELSE R(call.cv_tenths, 10)

Solved ==
    IF call.op = "main" THEN ret.reverse
    ELSE [population_frequency |-> ret.population_frequency,
          required_events |-> ret.required_events,
          required_input_cells |-> ret.required_input_cells]

\* C3: for a target with cumulative frequency f > 0, target CV c > 0 and
\* total efficiency e > 0 (the product of the three retention fractions) the
\* reverse solver returns totalRootEvents = floor((100/c)^2 / f) and
\* requiredStartingMaterial = floor(totalRootEvents / e); f = 0.05, c = 10,
\* e = 0.266 gives 2000 and 7518.
C3_ReverseSolveFloors ==
    (ReverseSolved /\ Solved.population_frequency.num > 0 /\ CallEfficiency.num > 0)
    => /\ IsFloorOf(Solved.required_events,
              RDiv(KeeneyEvents(SolvedCv), Solved.population_frequency))
       /\ IsFloorOf(Solved.required_input_cells,
              RDiv(FromInt(Solved.required_events), CallEfficiency))
       /\ (Solved.population_frequency = R(1, 20) /\ SolvedCv = FromInt(10)
              /\ CallEfficiency = R(266, 1000))
          => (KeeneyEvents(SolvedCv) = FromInt(100)
                 /\ Solved.required_events = 2000
                 /\ Solved.required_input_cells = 7518)

\* C3 witness: the documented example, solved by the sidebar.
C3_Witness ==
    /\ call.op = "display_reverse_analysis_sidebar"
    /\ ret.raised = "none"
    /\ ret.population_frequency = R(1, 20)
    /\ call.cv_tenths = 100
    /\ CallEfficiency = R(266, 1000)
    /\ ret.required_input_cells = 7518

\* The product of the proportions of a node and of its ancestors, the root's
\* left out.
RECURSIVE PathProduct(_, _)
PathProduct(h, n) ==
    IF h[n].parent = None THEN R(1, 1)
    ELSE RMul(h[n].proportion, PathProduct(h, h[n].parent))

\* C4: cumulativeProportion(target) is the product of the proportions of the
\* target and of its ancestors except the root, whose own proportion is never
\* multiplied in; this holds for every implementation of the walk.
C4_RootProportionNeverMultiplied ==
    (ReverseSolved /\ ValidTree(hierarchy))
    => Solved.population_frequency = PathProduct(hierarchy, call.target_population)

\* C5: propagating totalRootEvents = floor((100/c)^2 / f) from the root gives
\* a count n at the target with (100/c)^2 - 1 < n <= (100/c)^2, for every
\* category of frequency f in (0,1] and every target CV c > 0.
RoundTripCount ==
    calculate_cell_counts(ret.required_events, hierarchy, hierarchy)
        .counts[call.target_population]

C5_RoundTripWithinOneEvent ==
    (call.op = "display_reverse_analysis_sidebar" /\ ValidTree(hierarchy)
        /\ ret.raised = "none" /\ ret.population_frequency.num > 0
        /\ RLeq(ret.population_frequency, R(1, 1)))
    => /\ RLeq(RoundTripCount, KeeneyEvents(SolvedCv))
       /\ RLess(R(KeeneyEvents(SolvedCv).num - KeeneyEvents(SolvedCv).den,
                  KeeneyEvents(SolvedCv).den),
                RoundTripCount)

\* C5 witness: a round trip in which the flooring loses part of an event.
C5_Witness ==
    /\ call.op = "display_reverse_analysis_sidebar"
    /\ ValidTree(hierarchy)
    /\ ret.raised = "none"
    /\ ret.population_frequency.num > 0
    /\ RLess(RoundTripCount, KeeneyEvents(SolvedCv))

\* A load whose file is absent, is no JSON, or holds a structurally invalid
\* definition.
IsLoadFailure(f) ==
    f.kind \in {"missing", "malformed"} \/ ~ValidTree(f.content)

\* C6: loading a hierarchy definition that has two parentless nodes raises
\* StructuralError and leaves the previously held hierarchy intact.
C6_TwoRootsLoadRaises ==
    [][(/\ call'.op = "load_from_file"
        /\ call'.file.kind = "json"
        /\ Cardinality(RootsOf(call'.file.content)) = 2)
       => (ret'.raised = "StructuralError" /\ hierarchy' = hierarchy)]_vars

\* C7: on any load failure (missing file, malformed data, structurally
\* invalid definition) the store keeps exactly the hierarchy it held; after
\* any load attempt it holds the complete old hierarchy or the complete new
\* one.
C7_FailedLoadKeepsHierarchy ==
    [][call'.op = "load_from_file"
       => /\ IsLoadFailure(call'.file) => hierarchy' = hierarchy
          /\ \/ hierarchy' = hierarchy
             \/ call'.file.kind = "json" /\ hierarchy' = call'.file.content]_vars

\* C8: load never raises to its caller and always reports, as its result
\* value, whether the load succeeded or failed.
C8_LoadReportsOutcome ==
    call.op = "load_from_file"
    => /\ ret.raised = "none"
       /\ ret.value \in {"True", "False"}
       /\ ret.value = "True" <=> ret.printed = "Loaded"

\* C9: getRoot returns the unique node whose parent is none, and fails with a
\* StructuralError when the hierarchy has no parentless node or more than one.
C9_GetRootDefendsInvariant ==
    call.op = "get_root_node"
    => IF Cardinality(RootsOf(hierarchy)) = 1
       THEN ret.raised = "none" /\ ret.root \in RootsOf(hierarchy)
       ELSE ret.raised = "StructuralError"

\* C10: in the reverse solver, when totalEfficiency <= 0 the required
\* starting material is reported as a distinct failure condition: neither
\* zero nor infinite, and not the value returned for the frequency <= 0 case.
FrequencyZeroInputCells == StoredOr(SidebarRequiredInputCells(Inf, R(1, 1)), 0)

C10_ZeroEfficiencyIsDistinctFailure ==
    (call.op = "display_reverse_analysis_sidebar" /\ ValidTree(hierarchy)
        /\ ret.raised = "none" /\ CallEfficiency.num <= 0)
    => /\ ret.required_input_cells # 0
       /\ ret.required_input_cells # FrequencyZeroInputCells

\* The cumulative frequency of the target of a reverse solve, and whether the
\* last operation was a reverse solve (main's reverse branch or the sidebar).
TargetFrequency == PathProduct(hierarchy, call.target_population)

IsReverseSolve ==
    \/ call.op = "main" /\ call.mode = "Reverse"
    \/ call.op = "display_reverse_analysis_sidebar"

\* C11: in the reverse solver, when the cumulative frequency of the target is
\* <= 0, no division by zero happens and the required events at the root and
\* the required starting material are both reported as zero; the case is a
\* defined terminal case, not an error.
C11_ZeroFrequencyReportsZero ==
    (IsReverseSolve /\ ValidTree(hierarchy) /\ TargetFrequency.num <= 0)
    => /\ ret.raised = "none"
       /\ Solved.required_events = 0
       /\ Solved.required_input_cells = 0

\* Whether a node on the walk from n up to (not including) the root has no
\* proportion field.
RECURSIVE MissingOnPath(_, _, _)
MissingOnPath(h, n, fuel) ==
    IF n \notin DOMAIN h \/ fuel = 0 THEN FALSE
    ELSE IF h[n].parent = None THEN FALSE
    ELSE "proportion" \notin DOMAIN h[n] \/ MissingOnPath(h, h[n].parent, fuel - 1)

\* C13: cumulativeProportion fails with an error (the StructuralError of the
\* claim; any raised exception counts) when a node visited on the upward
\* walk has no proportion field; the outcome is not reported as an ordinary
\* frequency value and is not handled as the frequency <= 0 terminal case.
C13_MissingProportionFails ==
    (/\ IsReverseSolve
     /\ hierarchy \in MissingProportionDefs
     /\ MissingOnPath(hierarchy, call.target_population, MaxNodes))
    => ret.raised # "none"

C15_NonPositiveGivesSentinel ==
    /\ call.op = "calculate_cv"
           => /\ ret.raised = "none"
              /\ call.cell_count.num <= 0 => ret.cv = Plain(Inf)
              /\ call.cell_count.num > 0 => ~IsInf(ret.cv.v)
    /\ call.op = "calculate_cells_needed_for_cv"
           => /\ ret.raised = "none"
              /\ call.desired_cv.num <= 0 => ret.cells_needed = Inf
              /\ call.desired_cv.num > 0 => ~IsInf(ret.cells_needed)

\* C15 witness: the inverse computation asked for a CV of exactly 0.
C15_Witness ==
    /\ call.op = "calculate_cells_needed_for_cv"
    /\ call.desired_cv = R(0, 1)
    /\ ret.cells_needed = Inf

\* x < y for two floats of the same kind.
FloatLess(x, y) == x.root = y.root /\ RLess(x.v, y.v)

C17_ClassifyBands ==
    call.op = "categorize_cv"
    => /\ ret.category = "Excellent (<=1%)" <=> FloatLeqInt(call.cv, 1)
       /\ ret.category = "Good (1-5%)"
              <=> (~FloatLeqInt(call.cv, 1) /\ FloatLeqInt(call.cv, 5))
       /\ ret.category = "Fair (5-10%)"
              <=> (~FloatLeqInt(call.cv, 5) /\ FloatLeqInt(call.cv, 10))
       /\ ret.category = "Poor (10-20%)"
              <=> (~FloatLeqInt(call.cv, 10) /\ FloatLeqInt(call.cv, 20))
       /\ ret.category = "Very Poor (>20%)" <=> ~FloatLeqInt(call.cv, 20)
       /\ call.cv = Plain(R(1, 1)) => ret.category = "Excellent (<=1%)"
       /\ call.cv \in {Plain(R(10001, 10000)), Plain(R(5, 1))}
              => ret.category = "Good (1-5%)"
       /\ call.cv = Plain(R(20, 1)) => ret.category = "Poor (10-20%)"
       /\ call.cv = Plain(R(200001, 10000)) => ret.category = "Very Poor (>20%)"

\* C17 witness: a CV computed from a count of 25, exactly 20 percent.
C17_Witness ==
    /\ call.op = "categorize_cv"
    /\ call.cv = calculate_cv(FromInt(25))
    /\ ret.category = "Poor (10-20%)"

\* C18: in the Keeney table, for every frequency f > 0 and every target CV
\* c > 0 in the inputs, the cell for (f, c) holds (100/c)^2 / f (the cell for
\* f = 0.01, c = 10 is 10000).
C18_KeeneyCellIsQuotient ==
    call.op = "generate_keeney_table"
    => \A i \in 1..Len(call.frequencies), j \in 1..Len(call.desired_cvs) :
           (call.frequencies[i].num > 0 /\ call.desired_cvs[j].num > 0)
           => /\ ret.raised = "none"
              /\ FromInt(ret.table[i].cells[j])
                     = RDiv(KeeneyEvents(call.desired_cvs[j]), call.frequencies[i])

\* C19: keeneyTable called with a frequency list that holds f = 0 completes
\* and returns a table whose row for f = 0 reports the infinite sentinel as
\* its 1:n ratio.
C19_ZeroFrequencyRowIsInfinite ==
    (call.op = "generate_keeney_table"
        /\ \E i \in 1..Len(call.frequencies) : call.frequencies[i].num = 0)
    => /\ ret.raised = "none"
       /\ \A i \in 1..Len(call.frequencies) :
              call.frequencies[i].num = 0 => ret.table[i].ratio = Inf

\* C20: getParent and getChildren never raise for a name that is absent from
\* the hierarchy: getParent returns none, getChildren an empty collection,
\* and the store's state is unchanged by either call.
C20_AbsentNameLookupsAreSafe ==
    [][(call'.op \in {"get_parent", "get_children"}
           /\ call'.cell_type \notin DOMAIN hierarchy)
       => /\ ret'.raised = "none"
          /\ hierarchy' = hierarchy
          /\ call'.op = "get_parent" => ret'.parent = None
          /\ call'.op = "get_children" => ret'.children = <<>>]_vars

\* C20 witness: the parent of a name that is no key of a non-empty hierarchy.
C20_Witness ==
    /\ call.op = "get_parent"
    /\ DOMAIN hierarchy # {}
    /\ call.cell_type \notin DOMAIN hierarchy
    /\ ret.parent = None

\* C21: save never changes the in-memory hierarchy, whether it succeeds or
\* fails, and a failed save is reported to the caller as a false result
\* instead of being raised or hidden.
C21_SaveKeepsHierarchyAndReports ==
    [][call'.op = "save_to_file"
       => /\ hierarchy' = hierarchy
          /\ ret'.raised = "none"
          /\ ret'.saved = "False" <=> call'.target = "unwritable"
          /\ ret'.saved \in {"True", "False"}]_vars

\* C21 witness: a save that failed.
C21_Witness ==
    /\ call.op = "save_to_file"
    /\ call.target = "unwritable"
    /\ ret.saved = "False"

\* Every proportion of h lies in (0,1].
ProportionsInUnit(h) ==
    \A n \in DOMAIN h :
        /\ "proportion" \in DOMAIN h[n]
        /\ h[n].proportion.num > 0
        /\ RLeq(h[n].proportion, R(1, 1))

\* C22: forward propagation is monotone in the root input: for a fixed
\* hierarchy with proportions in (0,1] and root inputs N1 < N2, every node's
\* computed count under N2 is strictly greater than its count under N1.
C22_PropagationStrictlyMonotone ==
    (/\ call.op = "calculate_cell_counts"
     /\ ValidTree(call.hierarchy_arg)
     /\ ProportionsInUnit(call.hierarchy_arg))
    => \A n2 \in 1..MaxInput :
           call.input_cells < n2
           => LET larger == calculate_cell_counts(n2, hierarchy, call.hierarchy_arg)
              IN  /\ ret.raised = "none" /\ larger.err = "none"
                  /\ DOMAIN larger.counts = DOMAIN ret.counts
                  /\ \A c \in DOMAIN ret.counts :
                         RLess(ret.counts[c], larger.counts[c])

\* C22 witness: a propagation over the whole of the store's tree, from an
\* input that has a larger one to compare with.
C22_Witness ==
    /\ call.op = "calculate_cell_counts"
    /\ ~call.given
    /\ ValidTree(hierarchy) /\ ProportionsInUnit(hierarchy)
    /\ call.input_cells < MaxInput
    /\ DOMAIN ret.counts = DOMAIN hierarchy

\* The names reachable from the names of S through children lists.
RECURSIVE ReachFrom(_, _, _)
ReachFrom(h, S, fuel) ==
    IF fuel = 0 THEN S
    ELSE ReachFrom(h,
             S \cup UNION {SeqToSet(h[n].children) : n \in S \cap DOMAIN h},
             fuel - 1)

\* C23: the key set of the forward propagator's result is exactly the set of
\* nodes reachable from the root of the hierarchy through children lists: an
\* unreachable node is never assigned a count, every reachable node is.
C23_ResultKeysAreReachableNodes ==
    (/\ call.op = "calculate_cell_counts"
     /\ ret.raised = "none"
     /\ RootsOf(call.hierarchy_arg) # {})
    => DOMAIN ret.counts =
           ReachFrom(call.hierarchy_arg, {get_root_node(call.hierarchy_arg)},
                     MaxNodes)

\* C24: integer truncation of a category's count happens only once, when the
\* record shown is produced: every integer count shown for a category (the
\* results table, and the target-path rows of the cell-processing view) is
\* the floor of the untruncated propagated count, never a value truncated at
\* each level of the tree.
C24_TruncatedOnlyOnce ==
    /\ (call.op = "main" /\ "display_counts" \in DOMAIN ret /\ ret.raised = "none")
           => \A c \in DOMAIN ret.cell_counts :
                  IsFloorOf(ret.display_counts[c], ret.cell_counts[c])
    /\ (call.op = "display_cell_processing" /\ ret.raised = "none"
            /\ ValidTree(hierarchy))
           => \A i \in 1..Len(ret.path_counts) :
                  IsFloorOf(ret.path_counts[i],
                      calculate_cell_counts(call.single_viable_cells, hierarchy,
                          hierarchy).counts[ret.path_names[i]])

\* C25: a forward propagation leaves the hierarchy unchanged (every name,
\* proportion, parent and children list), and the result of a call depends
\* only on its root input and the hierarchy, not on any earlier call: after
\* whatever calls came before, a propagation over the store's valid tree has
\* exactly the keys of that tree and the counts the tree and the input fix.
C25_PropagationIsPure ==
    [][call'.op = "calculate_cell_counts"
       => /\ hierarchy' = hierarchy
          /\ (~call'.given /\ ValidTree(hierarchy))
                 => /\ ret'.raised = "none"
                    /\ DOMAIN ret'.counts = DOMAIN hierarchy
                    /\ IsPropagationOf(ret'.counts, hierarchy, call'.input_cells)]_vars

\* C25 witness: a propagation over a tree that an earlier call loaded.
C25_Witness ==
    /\ call.op = "calculate_cell_counts"
    /\ ~call.given
    /\ ValidTree(hierarchy)
    /\ hierarchy # DEFAULT_HIERARCHY
    /\ DOMAIN ret.counts = DOMAIN hierarchy

\* C26: every core traversal terminates on every hierarchy the store can
\* hold after a successful load: the forward propagation and the upward walk
\* of cumulativeProportion both come to an end (no call is left looping).
C26_TraversalsTerminate ==
    call.op \in {"calculate_cell_counts", "main", "display_reverse_analysis_sidebar"}
    => ret.raised # "hang"

\* C27: the starting material the reverse solver returns is sufficient: the
\* waterfall run on it with the same three efficiencies ends in a final
\* stage (Single, Viable Cells) of at least the required number of events.
C27_RequiredStartingMaterialSuffices ==
    (call.op = "main" /\ call.mode = "Reverse" /\ ret.raised = "none")
    => /\ ret.starting_cells = ret.reverse.required_input_cells
       /\ InputCells(ret.waterfall) >= ret.reverse.required_events

\* C28: store instances are isolated from the built-in default and from each
\* other: no update_proportion or load on db changes the default hierarchy,
\* which is what another instance built without a file returns and what
\* later instances are constructed from.
C28_InstancesAreIsolated ==
    [][call'.op \in {"update_proportion", "load_from_file"}
       => default_dict' = default_dict]_vars

\* The result of the walk made on one hierarchy alone.
WalkOn(h, population) ==
    LET w == get_cumulative_proportion(population, h, h)
    IN  [raised |-> w.err, value |-> w.value, error |-> w.error]

\* C29: a cumulative-proportion walk during which the store's hierarchy is
\* replaced by a load returns what the walk returns on the old hierarchy
\* alone or on the new one alone, never a value mixing nodes of both.
C29_WalkReadsOneSnapshot ==
    (call.op = "get_cumulative_proportion" /\ ret.raised = "none")
    => \/ ret = WalkOn(call.hierarchy_arg, call.population)
       \/ ret = WalkOn(hierarchy, call.population)

\* C30: with a non-negative starting count and every retention fraction in
\* (0,1], the recorded stage counts of the waterfall are non-negative
\* integers, none is larger than the stage before it, and none is larger
\* than the starting count.
C30_WaterfallNeverIncreases ==
    (call.op = "main" /\ "waterfall" \in DOMAIN ret /\ ret.starting_cells >= 0)
    => /\ Len(ret.waterfall) = Len(StepNames)
       /\ \A i \in 1..Len(ret.waterfall) :
             /\ ret.waterfall[i] \in Nat
             /\ ret.waterfall[i] <= ret.starting_cells
             /\ i > 1 => ret.waterfall[i] <= ret.waterfall[i - 1]

\* A run of main whose waterfall loses cells at every stage after the first.
C30_Witness ==
    /\ call.op = "main" /\ "waterfall" \in DOMAIN ret
    /\ ret.starting_cells > 0
    /\ ret.waterfall[1] = ret.starting_cells
    /\ \A i \in 2..Len(ret.waterfall) :
          0 < ret.waterfall[i] /\ ret.waterfall[i] < ret.waterfall[i - 1]

====
